---- MODULE Spec2Model ----
(***************************************************************************)
(* A model of the Z80 disassembler of src/src/Disasm.ts: the memory image, *)
(* the instruction decoder, the data classifier, the work-set drain, the   *)
(* address-ordered listing pass and the label pass of Disasm.disassemble.  *)
(*                                                                         *)
(* Addresses and bytes keep their real widths (16 and 8 bits).  Binary is  *)
(* only ever loaded into a low window [0, WinSize) and a top window        *)
(* [MEM_SIZE - TopSize, MEM_SIZE) of the address space; every other byte   *)
(* of the Uint8Arrays keeps its initial value 0 and is not stored.         *)
(***************************************************************************)
EXTENDS Integers, Sequences, FiniteSets, TLC

VARIABLES
    memory,              \* Disasm.memory, restricted to Window
    hasContent,          \* Disasm.hasContent: the set of addresses whose flag is 1
    isDecoded,           \* Disasm.isDecoded: the set of addresses whose flag is 1
    instructions,        \* Disasm.instructions: start address -> Instruction
    knownLabels,         \* Disasm.knownLabels: address -> name
    entryPoints,         \* Disasm.entryPoints
    referencedAddresses, \* Disasm.referencedAddresses
    pc,                  \* position inside disassemble(): idle before the call
    i,                   \* index of the preamble loop of disassemble()
    addressesToDecode,   \* the work set of disassemble()
    address,             \* loop variable of the listing pass
    listing,             \* the local array "instructions" of disassemble()
    relocated            \* the preambles relocated by the call, each with its source bytes then

vars == <<memory, hasContent, isDecoded, instructions, knownLabels, entryPoints,
          referencedAddresses, pc, i, addressesToDecode, address, listing, relocated>>

(***************************************************************************)
(* Program constants and bounds of the model.                              *)
(***************************************************************************)
MEM_SIZE == 65536

TARGET == "TARGET"

\* Size of the low window of loadable addresses.
WinSize == 4

\* Size of the top window of loadable addresses.
TopSize == 2

\* Largest number of content bytes loaded by addChunk calls.
MaxContent == 3

\* Largest number of addEntryPoint calls before disassemble().
MaxEntryPoints == 2

\* Largest number of entries of the known-label table filled by the caller.
MaxLabels == 1

\* Largest number of entries of the listing built by the listing pass.
MaxListing == 5

Window == (0 .. WinSize - 1) \cup ((MEM_SIZE - TopSize) .. (MEM_SIZE - 1))

\* The byte values that chunks are made of.
ByteSet == {0, 1, 24, 65, 195}

Min(a, b) == IF a < b THEN a ELSE b

(***************************************************************************)
(* Helpers imported from z80-base.                                         *)
(***************************************************************************)
inc16(value) == (value + 1) % 65536

signedByte(value) == IF value >= 128 THEN value - 256 ELSE value

word(highByte, lowByte) == (highByte % 256) * 256 + (lowByte % 256)

HexDigits == <<"0", "1", "2", "3", "4", "5", "6", "7",
               "8", "9", "A", "B", "C", "D", "E", "F">>

\* Number.prototype.toString(16), upper-cased: a minus sign, then the digits.
RECURSIVE toString16(_)
toString16(value) ==
    IF value < 0 THEN "-" \o toString16(0 - value)
    ELSE IF value < 16 THEN HexDigits[value + 1]
    ELSE toString16(value \div 16) \o HexDigits[(value % 16) + 1]

\* String.prototype.padStart(digits, "0").
RECURSIVE padStart(_, _)
padStart(s, digits) == IF Len(s) >= digits THEN s ELSE padStart("0" \o s, digits)

toHex(value, digits) == padStart(toString16(value), digits)

toHexByte(value) == toHex(value, 2)

toHexWord(value) == toHex(value, 4)

(***************************************************************************)
(* isPrintable, isText and String.fromCharCode.                            *)
(***************************************************************************)
isPrintable(b) == b >= 32 /\ b < 127

isText(b) == isPrintable(b) \/ b = 10 \/ b = 13

\* The characters of codes 32 .. 126.  Code 96 (the grave accent) cannot be written in
\* a string literal of this language; no byte of ByteSet maps to it.
Chars == <<" ", "!", "\"", "#", "$", "%", "&", "'", "(", ")", "*", "+", ",", "-", ".", "/",
           "0", "1", "2", "3", "4", "5", "6", "7", "8", "9", ":", ";", "<", "=", ">", "?",
           "@", "A", "B", "C", "D", "E", "F", "G", "H", "I", "J", "K", "L", "M", "N", "O",
           "P", "Q", "R", "S", "T", "U", "V", "W", "X", "Y", "Z", "[", "\\", "]", "^", "_",
           "?", "a", "b", "c", "d", "e", "f", "g", "h", "i", "j", "k", "l", "m", "n", "o",
           "p", "q", "r", "s", "t", "u", "v", "w", "x", "y", "z", "{", "|", "}", "~">>

fromCharCode(b) == Chars[b - 31]

(***************************************************************************)
(* The opcode table (Opcodes.json), for the opcodes that ByteSet and the   *)
(* zero bytes of unloaded memory can spell.  A parameter is a sequence of  *)
(* tokens; the placeholders nnnn, nn, dd and offset are tokens.            *)
(***************************************************************************)
opcodeMapED ==
    (65 :> [mnemonic |-> "out", params |-> << <<"(c)">>, <<"b">> >>])

opcodeMap ==
    (0 :> [mnemonic |-> "nop", params |-> << >>]) @@
    (1 :> [mnemonic |-> "ld", params |-> << <<"bc">>, <<"nnnn">> >>]) @@
    (3 :> [mnemonic |-> "inc", params |-> << <<"bc">> >>]) @@
    (10 :> [mnemonic |-> "ld", params |-> << <<"a">>, <<"(bc)">> >>]) @@
    (24 :> [mnemonic |-> "jr", params |-> << <<"offset">> >>]) @@
    (32 :> [mnemonic |-> "jr", params |-> << <<"nz">>, <<"offset">> >>]) @@
    (34 :> [mnemonic |-> "ld", params |-> << <<"(", "nnnn", ")">>, <<"hl">> >>]) @@
    (62 :> [mnemonic |-> "ld", params |-> << <<"a">>, <<"nn">> >>]) @@
    (65 :> [mnemonic |-> "ld", params |-> << <<"b">>, <<"c">> >>]) @@
    (195 :> [mnemonic |-> "jp", params |-> << <<"nnnn">> >>]) @@
    (201 :> [mnemonic |-> "ret", params |-> << >>]) @@
    (205 :> [mnemonic |-> "call", params |-> << <<"nnnn">> >>]) @@
    (237 :> [shift |-> opcodeMapED])

Undefined == << >>

Defined(value) == << value >>

(***************************************************************************)
(* The Instruction class (Instruction.ts): its fields, continues() and     *)
(* replaceArgVariable().  An argument is a sequence of tokens.             *)
(***************************************************************************)
Instruction(startAddress, bin, mnemonic, params, args) ==
    [address |-> startAddress, bin |-> bin, mnemonic |-> mnemonic, params |-> params,
     args |-> args, jumpTarget |-> Undefined, label |-> Undefined]

\* Whether execution falls through to the next address.
continues(instruction) ==
    ~ \/ (instruction.mnemonic \in {"jp", "jr"} /\ Len(instruction.params) = 1)
      \/ (instruction.mnemonic = "ret" /\ Len(instruction.params) = 0)
      \/ instruction.mnemonic \in {"reti", "retn"}

\* Position of the first token equal to tok, 0 when there is none.
indexOf(arg, tok) ==
    IF \E k \in 1 .. Len(arg) : arg[k] = tok
    THEN CHOOSE k \in 1 .. Len(arg) : arg[k] = tok /\ \A j \in 1 .. k - 1 : arg[j] # tok
    ELSE 0

\* arg with the token at pos replaced by text.
substitute(arg, pos, text) ==
    SubSeq(arg, 1, pos - 1) \o << text >> \o SubSeq(arg, pos + 1, Len(arg))

replaceArgVariable(instruction, varName, replacement) ==
    [instruction EXCEPT !.args =
        [k \in 1 .. Len(instruction.args) |->
            LET arg == instruction.args[k]
                pos == indexOf(arg, varName)
            IN  IF pos > 0 THEN substitute(arg, pos, replacement) ELSE arg]]

\* Uint8Array read: Disasm.readMemory over the stored window, 0 elsewhere.
readMemory(mem, a) == IF a \in DOMAIN mem THEN mem[a] ELSE 0

(***************************************************************************)
(* Disasm.disassembleOne.  The decoder state d holds the local variables   *)
(* address, bytes and jumpTarget, the argument being rewritten, and refs,  *)
(* the addresses the call adds to referencedAddresses.                     *)
(***************************************************************************)
\* next(): read the byte at d.address and step the address.
next(mem, d) ==
    [d EXCEPT !.byte = readMemory(mem, d.address),
              !.bytes = Append(d.bytes, readMemory(mem, d.address)),
              !.address = inc16(d.address)]

\* "Fetch word argument."
fetchWord(mem, value, d) ==
    LET pos == indexOf(d.arg, "nnnn")
        lo == next(mem, d)
        hi == next(mem, lo)
        nnnn == word(hi.byte, lo.byte)
        isJump == value.mnemonic = "call" \/ value.mnemonic = "jp"
        target == IF isJump THEN TARGET ELSE "0x" \o toHex(nnnn, 4)
    IN  IF pos = 0 THEN d
        ELSE [hi EXCEPT !.arg = substitute(d.arg, pos, target),
                        !.jumpTarget = IF isJump THEN Defined(nnnn) ELSE d.jumpTarget,
                        !.refs = IF isJump THEN d.refs ELSE d.refs \cup {nnnn},
                        !.changed = TRUE]

\* "Fetch byte argument."
fetchByte(mem, d) ==
    LET posnn == indexOf(d.arg, "nn")
        pos == IF posnn = 0 THEN indexOf(d.arg, "dd") ELSE posnn
        nn == next(mem, d)
    IN  IF pos = 0 THEN d
        ELSE [nn EXCEPT !.arg = substitute(d.arg, pos, "0x" \o toHex(nn.byte, 2)),
                        !.changed = TRUE]

\* "Fetch offset argument."
fetchOffset(mem, d) ==
    LET pos == indexOf(d.arg, "offset")
        n == next(mem, d)
        offset == signedByte(n.byte)
    IN  IF pos = 0 THEN d
        ELSE [n EXCEPT !.arg = substitute(d.arg, pos, TARGET),
                       !.jumpTarget = Defined(n.address + offset),
                       !.changed = TRUE]

\* The do ... while (changed) loop over one argument.
RECURSIVE parseArg(_, _, _)
parseArg(mem, value, d) ==
    LET pass == fetchOffset(mem, fetchByte(mem, fetchWord(mem, value, [d EXCEPT !.changed = FALSE])))
    IN  IF pass.changed THEN parseArg(mem, value, pass) ELSE pass

\* The for loop over the arguments, from argument k on.
RECURSIVE parseArgs(_, _, _, _)
parseArgs(mem, value, d, k) ==
    IF k > Len(d.args) THEN d
    ELSE LET p == parseArg(mem, value, [d EXCEPT !.arg = d.args[k]])
         IN  parseArgs(mem, value, [p EXCEPT !.args[k] = p.arg], k + 1)

\* The while (instruction === undefined) loop, d.byte being the byte just fetched.
RECURSIVE decode(_, _, _, _)
decode(mem, startAddress, map, d) ==
    IF d.byte \notin DOMAIN map
    THEN LET stringParams == [k \in 1 .. Len(d.bytes) |-> << "0x" \o toHex(d.bytes[k], 2) >>]
         IN  [instruction |-> Instruction(startAddress, d.bytes, ".byte", stringParams, stringParams),
              refs |-> d.refs]
    ELSE LET value == map[d.byte]
         IN  IF "shift" \in DOMAIN value
             THEN decode(mem, startAddress, value.shift, next(mem, d))
             ELSE LET p == parseArgs(mem, value, [d EXCEPT !.args = value.params], 1)
                      made == Instruction(startAddress, p.bytes, value.mnemonic, value.params, p.args)
                  IN  [instruction |-> [made EXCEPT !.jumpTarget = p.jumpTarget],
                       refs |-> p.refs]

\* The instruction at address a of mem, and the addresses it references.
disassembleOne(a, mem) ==
    decode(mem, a, opcodeMap,
           next(mem, [address |-> a, bytes |-> << >>, byte |-> 0, jumpTarget |-> Undefined,
                      arg |-> << >>, args |-> << >>, refs |-> {}, changed |-> FALSE]))

(***************************************************************************)
(* Disasm.makeDataInstruction.  A part is kept as its text and whether it  *)
(* is a quoted string (the parts that start with a double quote).          *)
(***************************************************************************)
hexPart(b) == [quoted |-> FALSE, text |-> "0x" \o toHexByte(b)]

\* The part list after one text byte is appended.
textPart(parts, b) ==
    LET char == IF fromCharCode(b) = "\"" THEN "\\\"" ELSE fromCharCode(b)
        n == Len(parts)
    IN  IF ~isPrintable(b) THEN Append(parts, hexPart(b))
        ELSE IF n > 0 /\ parts[n].quoted
             THEN [parts EXCEPT ![n].text = parts[n].text \o char]
             ELSE Append(parts, [quoted |-> TRUE, text |-> char])

\* Whether a data instruction that starts at startAddress may take the byte at a.
dataByteFree(a, startAddress, hasC, isD, refs) ==
    /\ a < MEM_SIZE
    /\ a \in hasC
    /\ a \notin isD
    /\ ~(a > startAddress /\ a \in refs)

\* "Gobble as much text as we can."
RECURSIVE gobbleText(_, _, _, _, _, _, _)
gobbleText(a, startAddress, parts, mem, hasC, isD, refs) ==
    IF /\ dataByteFree(a, startAddress, hasC, isD, refs)
       /\ isText(readMemory(mem, a))
       /\ a - startAddress < 50
    THEN gobbleText(a + 1, startAddress, textPart(parts, readMemory(mem, a)), mem, hasC, isD, refs)
    ELSE [address |-> a, parts |-> parts]

\* The .byte loop.
RECURSIVE gobbleBytes(_, _, _, _, _, _, _)
gobbleBytes(a, startAddress, parts, mem, hasC, isD, refs) ==
    IF dataByteFree(a, startAddress, hasC, isD, refs) /\ a - startAddress < 8
    THEN gobbleBytes(a + 1, startAddress, Append(parts, hexPart(readMemory(mem, a))), mem, hasC, isD, refs)
    ELSE [address |-> a, parts |-> parts]

renderPart(part) == IF part.quoted THEN << "\"" \o part.text \o "\"" >> ELSE << part.text >>

makeDataInstruction(startAddress, mem, hasC, isD, refs) ==
    LET text == gobbleText(startAddress, startAddress, << >>, mem, hasC, isD, refs)
        isTextRun == isText(readMemory(mem, startAddress)) /\ text.address - startAddress >= 2
        terminated ==
            IF /\ dataByteFree(text.address, startAddress, hasC, isD, refs)
               /\ readMemory(mem, text.address) \in {0, 3}
            THEN [address |-> text.address + 1,
                  parts |-> Append(text.parts, hexPart(readMemory(mem, text.address)))]
            ELSE text
        run == IF isTextRun THEN terminated
               ELSE gobbleBytes(startAddress, startAddress, << >>, mem, hasC, isD, refs)
        parts == [k \in 1 .. Len(run.parts) |-> renderPart(run.parts[k])]
        bytes == [k \in 1 .. run.address - startAddress |-> readMemory(mem, startAddress + k - 1)]
    IN  Instruction(startAddress, bytes, IF isTextRun THEN ".text" ELSE ".byte", parts, parts)

(***************************************************************************)
(* The known-label table: addLabels, haveLabel, addUniqueLabel.            *)
(***************************************************************************)
\* Number of suffixes addUniqueLabel tries, the bare name included.
MaxSuffix == 1000

\* Map.set for every pair of the array, in order.
RECURSIVE addLabels(_, _)
addLabels(table, labels) ==
    IF labels = << >> THEN table
    ELSE addLabels((labels[1][1] :> labels[1][2]) @@ table, Tail(labels))

haveLabel(table, label) == \E a \in DOMAIN table : table[a] = label

\* An addUniqueLabel that stores the name without looking for it in the table.
addUniqueLabelUnchecked(table, a, label, suffix) == addLabels(table, << <<a, label>> >>)

RECURSIVE addUniqueLabelFrom(_, _, _, _)
addUniqueLabelFrom(table, a, label, suffix) ==
    IF suffix >= MaxSuffix THEN table
    ELSE LET uniqueLabel == IF suffix = 1 THEN label ELSE label \o ToString(suffix)
         IN  IF haveLabel(table, uniqueLabel)
             THEN addUniqueLabelFrom(table, a, label, suffix + 1)
             ELSE addLabels(table, << <<a, uniqueLabel>> >>)

addUniqueLabel(table, a, label) == addUniqueLabelFrom(table, a, label, 1)

(***************************************************************************)
(* The label pass of disassemble() and replaceTargetAddress.               *)
(***************************************************************************)
\* jumpTargetMap.get(a): the positions in the list of the instructions that jump to a.
sourcesOf(list, a) == {j \in 1 .. Len(list) : list[j].jumpTarget = Defined(a)}

\* The "Assign labels" loop from position k on.
RECURSIVE assignLabels(_, _, _, _)
assignLabels(list, k, labelCounter, table) ==
    IF k > Len(list) THEN list
    ELSE LET a == list[k].address
             sources == sourcesOf(list, a)
             anonymous == a \notin DOMAIN table /\ sources # {}
             label == IF a \in DOMAIN table THEN Defined(table[a])
                      ELSE IF sources # {} THEN Defined("label" \o ToString(labelCounter))
                      ELSE Undefined
             labelled == [j \in 1 .. Len(list) |->
                            LET own == IF j = k THEN [list[j] EXCEPT !.label = label] ELSE list[j]
                            IN  IF j \in sources THEN replaceArgVariable(own, TARGET, label[1])
                                ELSE own]
         IN  assignLabels(IF label = Undefined THEN list ELSE labelled, k + 1,
                          IF anonymous THEN labelCounter + 1 ELSE labelCounter, table)

replaceTargetAddress(instruction, table) ==
    IF instruction.jumpTarget = Undefined THEN instruction
    ELSE LET t == instruction.jumpTarget[1]
             label == IF t \in DOMAIN table THEN table[t] ELSE "0x" \o toHexWord(t)
         IN  replaceArgVariable(instruction, TARGET, label)

\* The listing disassemble() returns for the address-ordered list it has built.
resolveLabels(list, table) ==
    LET labelled == assignLabels(list, 1, 1, table)
    IN  [k \in 1 .. Len(labelled) |-> replaceTargetAddress(labelled[k], table)]

(***************************************************************************)
(* The state after construction and the public operations.                 *)
(***************************************************************************)
Init ==
    /\ memory = [a \in Window |-> 0]
    /\ hasContent = {}
    /\ isDecoded = {}
    /\ instructions = << >>
    /\ knownLabels = << >>
    /\ entryPoints = << >>
    /\ referencedAddresses = {}
    /\ pc = "idle"
    /\ i = 0
    /\ addressesToDecode = {}
    /\ address = 0
    /\ listing = << >>
    /\ relocated = << >>

\* Uint8Array.set(bin, a): the bytes of mem after the copy.
setBytes(mem, bin, a) ==
    [x \in DOMAIN mem |-> IF x >= a /\ x < a + Len(bin) THEN bin[x - a + 1] ELSE mem[x]]

\* Uint8Array.fill over [begin, end), clamped to the array.
range(begin, end) == {x \in begin .. (end - 1) : x >= 0 /\ x < MEM_SIZE}

\* Disasm.addChunk(bin, a).  A chunk that does not fit in the array makes set() throw.
AddChunk(bin, a) ==
    /\ pc = "idle"
    /\ a + Len(bin) <= MEM_SIZE
    /\ memory' = setBytes(memory, bin, a)
    /\ hasContent' = hasContent \cup range(a, a + Len(bin))
    /\ UNCHANGED <<isDecoded, instructions, knownLabels, entryPoints, referencedAddresses,
                   pc, i, addressesToDecode, address, listing, relocated>>

\* Disasm.addEntryPoint(entryPoint).
AddEntryPoint(entryPoint) ==
    /\ pc = "idle"
    /\ entryPoints' = Append(entryPoints, entryPoint)
    /\ UNCHANGED <<memory, hasContent, isDecoded, instructions, knownLabels,
                   referencedAddresses, pc, i, addressesToDecode, address, listing, relocated>>

\* Disasm.addLabels(labels).
AddLabels(labels) ==
    /\ pc = "idle"
    /\ knownLabels' = addLabels(knownLabels, labels)
    /\ UNCHANGED <<memory, hasContent, isDecoded, instructions, entryPoints,
                   referencedAddresses, pc, i, addressesToDecode, address, listing, relocated>>

\* Disasm.addUniqueLabel(a, label).
AddUniqueLabel(a, label) ==
    /\ pc = "idle"
    /\ knownLabels' = addUniqueLabel(knownLabels, a, label)
    /\ UNCHANGED <<memory, hasContent, isDecoded, instructions, entryPoints,
                   referencedAddresses, pc, i, addressesToDecode, address, listing, relocated>>

(***************************************************************************)
(* Disasm.disassemble(), one action per loop iteration.                    *)
(***************************************************************************)
\* The call: the preamble loop starts at the first entry point.
Disassemble ==
    /\ pc = "idle"
    /\ pc' = "preamble"
    /\ i' = 0
    /\ UNCHANGED <<memory, hasContent, isDecoded, instructions, knownLabels, entryPoints,
                   referencedAddresses, addressesToDecode, address, listing, relocated>>

\* An iteration of the preamble loop in which Preamble.detect returns undefined.
PreambleNone ==
    /\ pc = "preamble"
    /\ i < Len(entryPoints)
    /\ i' = i + 1
    /\ UNCHANGED <<memory, hasContent, isDecoded, instructions, knownLabels, entryPoints,
                   referencedAddresses, pc, addressesToDecode, address, listing, relocated>>

\* memory.subarray(begin, end): the bytes of [begin, end), clamped to the array.
subarray(mem, begin, end) ==
    [k \in 1 .. (Min(end, MEM_SIZE) - begin) |-> readMemory(mem, begin + k - 1)]

\* A relocation that unmarks the source before it marks the destination, and labels
\* the destination instead of the jump address.
PreambleFoundMarksFirst(preamble) ==
    LET begin == preamble.sourceAddress
        end == begin + preamble.copyLength
        bin == subarray(memory, begin, end)
        destination == preamble.destinationAddress
    IN  /\ pc = "preamble"
        /\ i < Len(entryPoints)
        /\ destination + Len(bin) <= MEM_SIZE
        /\ relocated' = Append(relocated, [preamble |-> preamble, bytes |-> bin])
        /\ memory' = setBytes(memory, bin, destination)
        /\ hasContent' = (hasContent \ range(begin, end))
                            \cup range(destination, destination + Len(bin))
        /\ knownLabels' = addUniqueLabel(knownLabels, destination, "main")
        /\ entryPoints' = Append(entryPoints, preamble.jumpAddress)
        /\ i' = i + 1
        /\ UNCHANGED <<isDecoded, instructions, referencedAddresses, addressesToDecode,
                       address, listing, pc>>

\* An iteration of the preamble loop in which Preamble.detect returns preamble.
PreambleFound(preamble) ==
    LET begin == preamble.sourceAddress
        end == begin + preamble.copyLength
        bin == subarray(memory, begin, end)
        destination == preamble.destinationAddress
    IN  /\ pc = "preamble"
        /\ i < Len(entryPoints)
        /\ IF destination + Len(bin) > MEM_SIZE
           THEN \* addChunk throws a RangeError out of disassemble()
                /\ pc' = "threw"
                /\ UNCHANGED <<memory, hasContent, knownLabels, entryPoints, i, relocated>>
           ELSE /\ relocated' = Append(relocated, [preamble |-> preamble, bytes |-> bin])
                /\ memory' = setBytes(memory, bin, destination)
                /\ hasContent' = (hasContent \cup range(destination, destination + Len(bin)))
                                    \ range(begin, end)
                /\ knownLabels' = addUniqueLabel(knownLabels, preamble.jumpAddress, "main")
                /\ entryPoints' = Append(entryPoints, preamble.jumpAddress)
                /\ i' = i + 1
                /\ pc' = pc
        /\ UNCHANGED <<isDecoded, instructions, referencedAddresses, addressesToDecode,
                       address, listing>>

\* The lowest address with content, as a set: empty when nothing is loaded.
lowestContent(hasC) == {a \in hasC : \A b \in hasC : a <= b}

\* The seeding of the work set, after the preamble loop.
Seed ==
    /\ pc = "preamble"
    /\ i >= Len(entryPoints)
    /\ IF Len(entryPoints) = 0
       THEN /\ addressesToDecode' = lowestContent(hasContent)
            /\ pc' = IF Len(entryPoints) = 0 THEN "threw" ELSE "drain"
       ELSE /\ addressesToDecode' = {entryPoints[k] : k \in 1 .. Len(entryPoints)}
            /\ pc' = "drain"
    /\ UNCHANGED <<memory, hasContent, isDecoded, instructions, knownLabels, entryPoints,
                   referencedAddresses, i, address, listing, relocated>>

\* addAddressToDecode(number): the addresses the call adds to the work set.
addAddressToDecode(number, hasC, insts) ==
    IF number # Undefined /\ number[1] \in hasC /\ number[1] \notin DOMAIN insts
    THEN {number[1]}
    ELSE {}

\* The body of the drain loop for the address a taken from the work set.
decodeAt(a) ==
    LET one == disassembleOne(a, memory)
        instruction == one.instruction
        insts == (a :> instruction) @@ instructions
        fallThrough == IF continues(instruction)
                       THEN Defined(a + Len(instruction.bin)) ELSE Undefined
    IN  /\ instructions' = insts
        /\ isDecoded' = isDecoded \cup range(a, a + Len(instruction.bin))
        /\ referencedAddresses' = referencedAddresses \cup one.refs
        /\ addressesToDecode' = (addressesToDecode \ {a})
                \cup addAddressToDecode(instruction.jumpTarget, hasContent, insts)
                \cup addAddressToDecode(fallThrough, hasContent, insts)
        /\ UNCHANGED <<memory, hasContent, knownLabels, entryPoints, pc, i, address,
                       listing, relocated>>

\* A drain loop that leaves out an address some decoded instruction already covers.
DrainStepSkipsDecoded(a) ==
    /\ pc = "drain"
    /\ a \in addressesToDecode
    /\ IF a \in isDecoded
       THEN /\ addressesToDecode' = addressesToDecode \ {a}
            /\ UNCHANGED <<memory, hasContent, isDecoded, instructions, knownLabels,
                           entryPoints, referencedAddresses, pc, i, address, listing,
                           relocated>>
       ELSE decodeAt(a)

\* An iteration of the drain loop: any address of the work set may come next.
DrainStep(a) ==
    /\ pc = "drain"
    /\ a \in addressesToDecode
    /\ decodeAt(a)

\* The work set is empty: the listing pass starts at address 0.
DrainDone ==
    /\ pc = "drain"
    /\ addressesToDecode = {}
    /\ pc' = "list"
    /\ address' = 0
    /\ listing' = << >>
    /\ UNCHANGED <<memory, hasContent, isDecoded, instructions, knownLabels, entryPoints,
                   referencedAddresses, i, addressesToDecode, relocated>>

\* The addresses with content that the listing loop has still to visit.
contentFrom(from, hasC) == {a \in hasC : a >= from /\ a < MEM_SIZE}

\* The instruction the listing pass lists at the address a, which has content.
listedAt(a, mem, hasC, isD, insts, refs) ==
    IF a \in DOMAIN insts THEN insts[a] ELSE makeDataInstruction(a, mem, hasC, isD, refs)

\* The iterations of the listing loop up to and including the next address with
\* content: the iterations before it only step the address.
ListStep ==
    /\ pc = "list"
    /\ contentFrom(address, hasContent) # {}
    /\ LET a == CHOOSE x \in contentFrom(address, hasContent) :
                    \A y \in contentFrom(address, hasContent) : x <= y
           instruction == listedAt(a, memory, hasContent, isDecoded, instructions,
                                   referencedAddresses)
       IN  /\ listing' = Append(listing, instruction)
           /\ address' = a + (Len(instruction.bin) - 1) + 1
    /\ UNCHANGED <<memory, hasContent, isDecoded, instructions, knownLabels, entryPoints,
                   referencedAddresses, pc, i, addressesToDecode, relocated>>

\* The listing loop ends; the label pass rewrites the listed instructions, which
\* the instructions array shares, and disassemble() returns the list.
Return ==
    /\ pc = "list"
    /\ contentFrom(address, hasContent) = {}
    /\ listing' = resolveLabels(listing, knownLabels)
    /\ instructions' = [a \in DOMAIN instructions |->
            IF \E k \in 1 .. Len(listing) : listing[k] = instructions[a]
            THEN LET k == CHOOSE k \in 1 .. Len(listing) : listing[k] = instructions[a]
                 IN  listing'[k]
            ELSE instructions[a]]
    /\ pc' = "done"
    /\ UNCHANGED <<memory, hasContent, isDecoded, knownLabels, entryPoints,
                   referencedAddresses, i, addressesToDecode, address, relocated>>

(***************************************************************************)
(* The inputs of the operations and the specification.                     *)
(***************************************************************************)
\* The chunks addChunk is called with: every byte sequence of 1 .. MaxContent bytes.
Chunks == UNION {[1 .. n -> ByteSet] : n \in 1 .. MaxContent}

\* The addresses chunks are loaded at, and those entry points are declared at once
\* they hold content.
ChunkAddrs == {0, 1, MEM_SIZE - TopSize}

EntryAddrs == {0, 1, MEM_SIZE - TopSize}

\* The addresses and names of the labels the caller declares.
LabelAddrs == {0, 2}

LabelNames == {"loop"}

\* The chunk lies in the loadable windows, over no loaded byte, within MaxContent.
chunkAllowed(bin, a) ==
    /\ range(a, a + Len(bin)) \subseteq Window
    /\ range(a, a + Len(bin)) \cap hasContent = {}
    /\ Cardinality(hasContent) + Len(bin) <= MaxContent

\* A call of addChunk, addEntryPoint or addLabels before disassemble().
LoadChunk ==
    /\ pc = "idle"
    /\ \E bin \in Chunks, a \in ChunkAddrs : chunkAllowed(bin, a) /\ AddChunk(bin, a)

DeclareEntryPoint ==
    /\ pc = "idle"
    /\ Len(entryPoints) < MaxEntryPoints
    /\ \E e \in EntryAddrs \cap hasContent : AddEntryPoint(e)

DeclareLabel ==
    /\ pc = "idle"
    /\ Cardinality(DOMAIN knownLabels) < MaxLabels
    /\ \E a \in LabelAddrs, name \in LabelNames : AddLabels(<< <<a, name>> >>)

Drain == pc = "drain" /\ \E a \in addressesToDecode : DrainStep(a)

List == Len(listing) < MaxListing /\ ListStep

Next ==
    \/ LoadChunk
    \/ DeclareEntryPoint
    \/ DeclareLabel
    \/ Disassemble
    \/ PreambleNone
    \/ Seed
    \/ Drain
    \/ DrainDone
    \/ List
    \/ Return

Spec == Init /\ [][Next]_vars

(***************************************************************************)
(* Definitions used to state the claims.                                   *)
(***************************************************************************)
\* The addresses of the bytes of an instruction: [address, address + length).
span(instruction) == instruction.address .. (instruction.address + Len(instruction.bin) - 1)

\* The positions of the listing that hold an instruction made by makeDataInstruction.
dataPositions == {k \in 1 .. Len(listing) : listing[k].address \notin DOMAIN instructions}

\* C1: when disassemble() is called with no entry point declared and at least one byte
\* of content loaded, it does not fail (it decodes from the lowest address with content).
C1_NoEntryPointDoesNotFail ==
    ~(pc = "threw" /\ Len(entryPoints) = 0 /\ hasContent # {})

\* C2: the list disassemble() returns is in strictly ascending address order, no two
\* spans overlap, no span contains an address without content, every span lies in
\* [0, 65536) and every address with content lies in exactly one span.
C2_SpansPartitionContent ==
    pc = "done" =>
        /\ \A k \in 1 .. Len(listing) - 1 : listing[k].address < listing[k + 1].address
        /\ \A j, k \in 1 .. Len(listing) : j # k => span(listing[j]) \cap span(listing[k]) = {}
        /\ \A k \in 1 .. Len(listing) : span(listing[k]) \subseteq hasContent
        /\ \A k \in 1 .. Len(listing) : span(listing[k]) \subseteq 0 .. (MEM_SIZE - 1)
        /\ \A a \in hasContent : Cardinality({k \in 1 .. Len(listing) : a \in span(listing[k])}) = 1

\* The token that stands where the parameter of the jump holds its target placeholder.
targetOperand(instruction) ==
    LET j == CHOOSE j \in 1 .. Len(instruction.params) :
                 indexOf(instruction.params[j], "nnnn") + indexOf(instruction.params[j], "offset") > 0
        param == instruction.params[j]
    IN  instruction.args[j][indexOf(param, "nnnn") + indexOf(param, "offset")]

\* The literal "0x" and the four hexadecimal digits of the address t.
IsHexWordOf(text, t) ==
    /\ t \in 0 .. 65535
    /\ text = "0x" \o HexDigits[(t \div 4096) + 1] \o HexDigits[((t \div 256) % 16) + 1]
                   \o HexDigits[((t \div 16) % 16) + 1] \o HexDigits[(t % 16) + 1]

\* C3: after disassemble() returns, a listed instruction with jumpTarget t has as its
\* target operand the label of the listed instruction that starts at t, which carries
\* one; when no listed instruction starts at t, the known label declared at t, or else
\* the literal 4-hex-digit address of t.  No listed instruction keeps the placeholder.
C3_TargetsResolved ==
    pc = "done" =>
        \A k \in 1 .. Len(listing) :
            /\ \A j \in 1 .. Len(listing[k].args) : indexOf(listing[k].args[j], TARGET) = 0
            /\ listing[k].jumpTarget # Undefined =>
                 LET t == listing[k].jumpTarget[1]
                     operand == targetOperand(listing[k])
                     starts == {m \in 1 .. Len(listing) : listing[m].address = t}
                 IN  IF starts # {}
                     THEN \A m \in starts : /\ listing[m].label # Undefined
                                            /\ operand = listing[m].label[1]
                     ELSE IF t \in DOMAIN knownLabels THEN operand = knownLabels[t]
                     ELSE IsHexWordOf(operand, t)

\* C7: every call of disassemble() terminates: each iteration of the drain decodes an
\* address that had no instruction yet, so the work set empties, and each iteration of
\* the listing pass moves on to a higher address, so the pass reaches the end of the
\* address space.
C7_DisassembleTerminates ==
    [][/\ (pc = "drain" /\ pc' = "drain") =>
              /\ DOMAIN instructions \subseteq DOMAIN instructions'
              /\ DOMAIN instructions # DOMAIN instructions'
       /\ (pc = "list" /\ pc' = "list") => address' > address]_vars

\* C8: every address marked isDecoded is also marked hasContent.
C8_DecodedImpliesContent == isDecoded \subseteq hasContent

\* C9: every data instruction the listing pass obtains from makeDataInstruction consumes
\* at least one byte: a .text instruction spans 2 to 50 text bytes plus at most one
\* trailing 0x00 or 0x03, a .byte instruction spans 1 to 8 bytes; every consumed byte has
\* content and is not marked decoded, and none but the first is a referenced address.
C9_DataInstructionConsumes ==
    \A k \in dataPositions :
        LET d == listing[k]
            n == Len(d.bin)
            texts == {m \in 1 .. n : isText(d.bin[m])}
        IN  /\ n >= 1
            /\ d.mnemonic \in {".text", ".byte"}
            /\ d.mnemonic = ".byte" => n <= 8
            /\ d.mnemonic = ".text" =>
                 \E m \in 2 .. 50 :
                     /\ 1 .. m \subseteq texts
                     /\ n = m \/ (n = m + 1 /\ d.bin[n] \in {0, 3})
            /\ \A a \in span(d) :
                 /\ a \in hasContent
                 /\ a \notin isDecoded
                 /\ a \in referencedAddresses => a = d.address

\* C10: every jumpTarget disassembleOne sets is a 16-bit address in [0, 65536): a
\* relative target wraps modulo 65536.
C10_JumpTargetIsAddress ==
    \A a \in DOMAIN instructions :
        instructions[a].jumpTarget # Undefined =>
            instructions[a].jumpTarget[1] \in 0 .. (MEM_SIZE - 1)

\* The addresses decoding reaches from the set S: S, the jump targets and the
\* fall-through addresses that hold content, and what those reach.
RECURSIVE reachable(_)
reachable(S) ==
    LET successors(a) ==
            LET instruction == disassembleOne(a, memory).instruction
                t == instruction.jumpTarget
            IN  {x \in hasContent : t = Defined(x)
                     \/ (continues(instruction) /\ x = a + Len(instruction.bin))}
        more == S \cup UNION {successors(a) : a \in S}
    IN  IF more = S THEN S ELSE reachable(more)

\* The address-ordered list of the instructions of insts and of the data between them,
\* from the address from on, as long as fuel lasts.
RECURSIVE listFrom(_, _, _, _, _)
listFrom(from, insts, isD, refs, fuel) ==
    IF contentFrom(from, hasContent) = {} \/ fuel = 0 THEN << >>
    ELSE LET a == CHOOSE x \in contentFrom(from, hasContent) :
                      \A y \in contentFrom(from, hasContent) : x <= y
             instruction == listedAt(a, memory, hasContent, isD, insts, refs)
         IN  << instruction >> \o listFrom(a + Len(instruction.bin), insts, isD, refs, fuel - 1)

\* The listing that the entry points, the memory image and the known labels determine,
\* stated without reference to the order of the drain.
determinedListing ==
    LET starts == reachable({entryPoints[k] : k \in 1 .. Len(entryPoints)})
        insts == [a \in starts |-> disassembleOne(a, memory).instruction]
        isD == UNION {range(a, a + Len(insts[a].bin)) : a \in starts}
        refs == UNION {disassembleOne(a, memory).refs : a \in starts}
    IN  resolveLabels(listFrom(0, insts, isD, refs, MaxListing), knownLabels)

\* C6: for fixed chunks, entry points and known labels the listing disassemble() returns
\* (addresses, bytes, mnemonics, labels, operand text) is the same whichever address the
\* drain loop removes next from the work set.
C6_PickOrderIrrelevant == pc = "done" => listing = determinedListing

\* Two entry points were in the work set together, both are listed, and a label was
\* assigned to a jump target.
C6_Witness ==
    /\ pc = "done"
    /\ Len(entryPoints) = 2
    /\ entryPoints[1] # entryPoints[2]
    /\ \A e \in 1 .. 2 : \E k \in 1 .. Len(listing) : listing[k].address = entryPoints[e]
    /\ \E k \in 1 .. Len(listing) : listing[k].label = Defined("label1")

(***************************************************************************)
(* The label table on its own: any sequence of addLabels and               *)
(* addUniqueLabel calls.                                                   *)
(***************************************************************************)
\* Largest number of pairs in the array of one addLabels call.
MaxLabelArray == 2

TableAddrs == {0, 1, 2}

TableNames == {"loop", "loop2", "main"}

LabelArrays == UNION {[1 .. n -> TableAddrs \X TableNames] : n \in 1 .. MaxLabelArray}

CallAddLabels == \E labels \in LabelArrays : AddLabels(labels)

CallAddUniqueLabel == \E a \in TableAddrs, name \in TableNames : AddUniqueLabel(a, name)

NextLabels == CallAddLabels \/ CallAddUniqueLabel

SpecLabels == Init /\ [][NextLabels]_vars

namesUnique(table) == \A a, b \in DOMAIN table : a # b => table[a] # table[b]

MaxRelocations == 2

\* The preambles the detector reports.
Preambles ==
    {[sourceAddress |-> 0, copyLength |-> 2, destinationAddress |-> 2, jumpAddress |-> 2],
     [sourceAddress |-> 0, copyLength |-> 2, destinationAddress |-> 1, jumpAddress |-> 2],
     [sourceAddress |-> 1, copyLength |-> 2, destinationAddress |-> 2, jumpAddress |-> 3],
     [sourceAddress |-> 0, copyLength |-> 2, destinationAddress |-> MEM_SIZE - 1,
      jumpAddress |-> MEM_SIZE - 1]}

\* The chunks loaded before a call that relocates.
RelocatedChunks == [1 .. 2 -> {65, 201}]

LoadRelocatedChunk ==
    /\ pc = "idle"
    /\ \E bin \in RelocatedChunks, a \in {0, 1} : chunkAllowed(bin, a) /\ AddChunk(bin, a)

DeclareMain ==
    /\ pc = "idle"
    /\ knownLabels = << >>
    /\ \E a \in {1, 2} : AddLabels(<< <<a, "main">> >>)

Relocate ==
    /\ Len(relocated) < MaxRelocations
    /\ \E preamble \in Preambles : PreambleFound(preamble)

NextPreamble ==
    \/ LoadRelocatedChunk
    \/ DeclareEntryPoint
    \/ DeclareMain
    \/ Disassemble
    \/ PreambleNone
    \/ Relocate
    \/ Seed
    \/ Drain
    \/ DrainDone
    \/ List
    \/ Return

SpecPreamble == Init /\ [][NextPreamble]_vars

====
